---- MODULE Spec2Model ----
(***************************************************************************)
(* A model of the mini key-value server of tokio-reference.                *)
(*                                                                         *)
(*   src/src/bin/server.rs   main (accept loop) and process (the           *)
(*                           per-connection handler loop)                  *)
(*   src/src/connection.rs   Connection::new and Connection::read_frame    *)
(*                                                                         *)
(* server.rs takes Connection, Frame and Command from the mini_redis       *)
(* crate, so the handlers of Spec see read_frame through its results       *)
(* (Some(frame), None, Err).  connection.rs is the repository's own        *)
(* Connection; SpecConn runs its read_frame over a byte stream.            *)
(*                                                                         *)
(* Text and byte strings are sequences of one-character strings.           *)
(***************************************************************************)
EXTENDS Integers, Sequences, FiniteSets, TLC

\* ------------------------------------------------------------------ bounds
\* Number of connections the listener accepts.
NumConns == 2
\* Total number of frames the handlers read, over all connections.
MaxReads == 3

Conns == 1..NumConns

\* ------------------------------------------------------------------ frames
\* mini_redis::Frame, as server.rs uses it (Frame::Simple, Frame::Bulk,
\* Frame::Null) and as the wire format carries it.
Simple(s) == [type |-> "Simple", val |-> s]
ErrorFrame(s) == [type |-> "Error", val |-> s]
Integer(n) == [type |-> "Integer", int |-> n]
Bulk(b) == [type |-> "Bulk", val |-> b]
Null == [type |-> "Null"]
Array(fs) == [type |-> "Array", items |-> fs]

Keys == {<<"a">>, <<"b">>}
Values == {<<"x">>, <<"y">>}

OK == <<"O", "K">>
SET == <<"S", "E", "T">>
GET == <<"G", "E", "T">>
DEL == <<"D", "E", "L">>

SetFrame(k, v) == Array(<<Bulk(SET), Bulk(k), Bulk(v)>>)
GetFrame(k) == Array(<<Bulk(GET), Bulk(k)>>)
\* A well-formed command naming an operation other than Get or Set.
UnknownFrame == Array(<<Bulk(DEL), Bulk(<<"a">>)>>)
\* SET with the value element missing.
AritySetFrame == Array(<<Bulk(SET), Bulk(<<"a">>)>>)
\* A frame that is not an Array.
NotArrayFrame == Simple(OK)

\* The frames a peer sends to a handler.
InputFrames ==
    {SetFrame(k, v) : k \in Keys, v \in Values}
        \cup {GetFrame(k) : k \in Keys}
        \cup {UnknownFrame, AritySetFrame, NotArrayFrame}

\* ---------------------------------------------------------------- commands
LowerChar(ch) ==
    CASE ch = "D" -> "d"
      [] ch = "E" -> "e"
      [] ch = "G" -> "g"
      [] ch = "L" -> "l"
      [] ch = "S" -> "s"
      [] ch = "T" -> "t"
      [] OTHER -> ch

ToLower(s) == [i \in 1..Len(s) |-> LowerChar(s[i])]

IsText(f) == f.type \in {"Simple", "Bulk"}

CmdErr(e) == [kind |-> "Err", err |-> e]

\* Command::from_frame: only an Array is a command; its first element names
\* the operation (case-insensitive); Get takes one further element, Set two.
FromFrame(f) ==
    IF f.type # "Array" THEN CmdErr("NotArray")
    ELSE IF Len(f.items) = 0 \/ ~IsText(f.items[1]) THEN CmdErr("Arity")
    ELSE LET name == ToLower(f.items[1].val)
             args == Tail(f.items)
             text == \A i \in 1..Len(args) : IsText(args[i])
         IN  IF name = <<"g", "e", "t">>
             THEN IF Len(args) = 1 /\ text
                  THEN [kind |-> "Get", key |-> args[1].val]
                  ELSE CmdErr("Arity")
             ELSE IF name = <<"s", "e", "t">>
             THEN IF Len(args) = 2 /\ text
                  THEN [kind |-> "Set", key |-> args[1].val, value |-> args[2].val]
                  ELSE CmdErr("Arity")
             ELSE [kind |-> "Unknown", name |-> name]

\* -------------------------------------------------------------------- maps
\* HashMap<String, Bytes>: a function whose domain is the set of keys present.
EmptyMap == [k \in {} |-> <<>>]

\* HashMap::insert: the entry for k is created or overwritten.
MapInsert(m, k, v) == [x \in DOMAIN m \cup {k} |-> IF x = k THEN v ELSE m[x]]

\* ------------------------------------------------------------------- state
VARIABLES
    db,        \* main's Db, the map behind Arc<Mutex<..>> (server.rs:16)
    mainpc,    \* main's position: in its accept loop, or panicked
    closed,    \* the connections whose peer has closed its end of the stream
    pc,        \* each handler's position
    store,     \* each handler's map: `let mut db = HashMap::new()` (server.rs:36)
    cmd,       \* the command decoded from the frame read, until it is applied
    response,  \* the response frame, until it is written
    inp,       \* per connection: the frames read_frame returned, in order
    out,       \* per connection: the frames write_frame wrote, in order
    lastSet,   \* history: per key, the most recently applied Set
    buffer,    \* Connection.buffer (connection.rs:8)
    wire,      \* bytes the peer still sends on Connection.stream before it closes
    rf,        \* position of the read_frame call of connection.rs
    result,    \* what the last read_frame call of connection.rs returned
    got        \* frames the read_frame calls of connection.rs returned, in order

srvVars == <<db, mainpc, closed, pc, store, cmd, response, inp, out, lastSet>>
connVars == <<buffer, wire, rf, result, got>>
vars == <<srvVars, connVars>>

Nothing == [type |-> "Nothing"]
NoCmd == [kind |-> "None"]

\* ------------------------------------------------------------ server: main
\* Frames read so far, over all connections.
RECURSIVE ReadsUpTo(_)
ReadsUpTo(n) == IF n = 0 THEN 0 ELSE Len(inp[n]) + ReadsUpTo(n - 1)

TotalReads == ReadsUpTo(NumConns)

\* Frame::Simple("OK".to_string())
OkResponse == Simple(OK)

\* process's Get arm: Bulk of the stored value when the key is present in the
\* map the handler reads, Null otherwise.
GetResponse(m, k) == IF k \in DOMAIN m THEN Bulk(m[k]) ELSE Null

\* What a handler leaves behind when its task ends, by return, panic or
\* drop: the locals of process are destroyed, its HashMap (server.rs:36)
\* with them.
Drop(c) ==
    /\ cmd' = [cmd EXCEPT ![c] = NoCmd]
    /\ response' = [response EXCEPT ![c] = Nothing]
    /\ store' = [store EXCEPT ![c] = EmptyMap]

InitServer ==
    /\ db = EmptyMap
    /\ mainpc = "Accept"
    /\ closed = {}
    /\ pc = [c \in Conns |-> "NotAccepted"]
    /\ store = [c \in Conns |-> EmptyMap]
    /\ cmd = [c \in Conns |-> NoCmd]
    /\ response = [c \in Conns |-> Nothing]
    /\ inp = [c \in Conns |-> <<>>]
    /\ out = [c \in Conns |-> <<>>]
    /\ lastSet = EmptyMap

\* The positions in which a handler's task is suspended at an .await of its
\* connection: read_frame (server.rs:43) and write_frame (server.rs:62).
AwaitPoints == {"AwaitFrame", "RespondAndLoop"}

\* main's loop: listener.accept().await.unwrap() yields a socket, the Db
\* handle is cloned and process is spawned on the socket alone.  The task is
\* queued; main goes on to its next accept.
Accept(c) ==
    /\ mainpc = "Accept"
    /\ pc[c] = "NotAccepted"
    /\ \A d \in Conns : d < c => pc[d] # "NotAccepted"
    /\ pc' = [pc EXCEPT ![c] = "Spawned"]
    /\ UNCHANGED <<db, mainpc, closed, store, cmd, response, inp, out, lastSet, connVars>>

\* listener.accept() fails: the unwrap of server.rs:20 panics in main and
\* the runtime starts to shut down.  The tasks run on, on the worker threads,
\* until the shutdown reaches them (Shutdown).  Like Accept, it is the
\* outcome of one of main's first NumConns accept calls.
AcceptErr ==
    /\ mainpc = "Accept"
    /\ \E c \in Conns : pc[c] = "NotAccepted"
    /\ mainpc' = "Panicked"
    /\ UNCHANGED <<db, closed, pc, store, cmd, response, inp, out, lastSet, connVars>>

\* The runtime, shutting down after main's panic, drops a task: one that is
\* suspended at an .await of its connection, or one that was spawned and
\* never polled.  Until then the task takes its steps as before.
Shutdown(c) ==
    /\ mainpc = "Panicked"
    /\ pc[c] \in AwaitPoints \cup {"Spawned"}
    /\ pc' = [pc EXCEPT ![c] = "Dropped"]
    /\ Drop(c)
    /\ UNCHANGED <<db, mainpc, closed, inp, out, lastSet, connVars>>

\* The spawned task starts: process makes its own empty HashMap
\* (server.rs:36) and its Connection (server.rs:40) and reaches read_frame.
Setup(c) ==
    /\ pc[c] = "Spawned"
    /\ pc' = [pc EXCEPT ![c] = "AwaitFrame"]
    /\ store' = [store EXCEPT ![c] = EmptyMap]
    /\ UNCHANGED <<db, mainpc, closed, cmd, response, inp, out, lastSet, connVars>>

\* The handler's position after Command::from_frame(frame).unwrap() and the
\* match on its result: Set and Get go on to their arm, a CommandError panics
\* in unwrap, any other command panics in the catch-all arm.
AfterDecode(r) == IF r.kind \in {"Get", "Set"} THEN "Apply" ELSE "Panicked"

\* connection.read_frame().await.unwrap() yields Some(frame): the loop body
\* runs, and the frame is decoded at once (nothing suspends in between).  A
\* panic in the decoding ends the task.  No frame arrives from a peer that
\* has closed.
ReadFrameSome(c, f) ==
    /\ pc[c] = "AwaitFrame"
    /\ c \notin closed
    /\ TotalReads < MaxReads
    /\ inp' = [inp EXCEPT ![c] = Append(@, f)]
    /\ LET r == FromFrame(f)
           to == AfterDecode(r)
       IN  /\ pc' = [pc EXCEPT ![c] = to]
           /\ cmd' = [cmd EXCEPT ![c] = IF to = "Apply" THEN r ELSE NoCmd]
           /\ store' = [store EXCEPT ![c] = IF to = "Apply" THEN @ ELSE EmptyMap]
    /\ UNCHANGED <<db, mainpc, closed, response, out, lastSet, connVars>>

\* read_frame yields None: the while-let ends and process returns.
ReadFrameNone(c) ==
    /\ pc[c] = "AwaitFrame"
    /\ pc' = [pc EXCEPT ![c] = "Closed"]
    /\ Drop(c)
    /\ UNCHANGED <<db, mainpc, closed, inp, out, lastSet, connVars>>

\* read_frame fails: unwrap panics and the task ends.
ReadFrameErr(c) ==
    /\ pc[c] = "AwaitFrame"
    /\ pc' = [pc EXCEPT ![c] = "Panicked"]
    /\ Drop(c)
    /\ UNCHANGED <<db, mainpc, closed, inp, out, lastSet, connVars>>

\* The map the handler's Set and Get arms work on: the local `db` of process.
HandlerMap(c) == store[c]

\* The Set arm: db.insert(key, value); the response is Simple("OK").
ApplySet(c) ==
    /\ pc[c] = "Apply"
    /\ cmd[c].kind = "Set"
    /\ store' = [store EXCEPT ![c] = MapInsert(HandlerMap(c), cmd[c].key, cmd[c].value)]
    /\ response' = [response EXCEPT ![c] = OkResponse]
    /\ lastSet' = MapInsert(lastSet, cmd[c].key,
                            [val |-> cmd[c].value, by |-> c,
                             n |-> IF cmd[c].key \in DOMAIN lastSet
                                   THEN lastSet[cmd[c].key].n + 1 ELSE 1])
    /\ pc' = [pc EXCEPT ![c] = "RespondAndLoop"]
    /\ UNCHANGED <<db, mainpc, closed, cmd, inp, out, connVars>>

\* ApplyGet reading through an entry that is created when the key is absent.
ApplyGetInsertsDefault(c) ==
    /\ pc[c] = "Apply"
    /\ cmd[c].kind = "Get"
    /\ store' = [store EXCEPT ![c] =
                    IF cmd[c].key \in DOMAIN @ THEN @ ELSE MapInsert(@, cmd[c].key, <<>>)]
    /\ response' = [response EXCEPT ![c] = GetResponse(store'[c], cmd[c].key)]
    /\ pc' = [pc EXCEPT ![c] = "RespondAndLoop"]
    /\ UNCHANGED <<db, mainpc, closed, cmd, inp, out, lastSet, connVars>>

\* The Get arm: db.get(key); the response is Bulk(value) or Null.
ApplyGet(c) ==
    /\ pc[c] = "Apply"
    /\ cmd[c].kind = "Get"
    /\ response' = [response EXCEPT ![c] = GetResponse(HandlerMap(c), cmd[c].key)]
    /\ pc' = [pc EXCEPT ![c] = "RespondAndLoop"]
    /\ UNCHANGED <<db, mainpc, closed, store, cmd, inp, out, lastSet, connVars>>

\* connection.write_frame(&response).await.unwrap() succeeds: back to the
\* head of the loop.
WriteFrameOk(c) ==
    /\ pc[c] = "RespondAndLoop"
    /\ out' = [out EXCEPT ![c] = Append(@, response[c])]
    /\ pc' = [pc EXCEPT ![c] = "AwaitFrame"]
    /\ cmd' = [cmd EXCEPT ![c] = NoCmd]
    /\ response' = [response EXCEPT ![c] = Nothing]
    /\ UNCHANGED <<db, mainpc, closed, store, inp, lastSet, connVars>>

\* write_frame fails: unwrap panics and the task ends.
WriteFrameErr(c) ==
    /\ pc[c] = "RespondAndLoop"
    /\ pc' = [pc EXCEPT ![c] = "Panicked"]
    /\ Drop(c)
    /\ UNCHANGED <<db, mainpc, closed, inp, out, lastSet, connVars>>

InitConnIdle ==
    /\ buffer = <<>>
    /\ wire = <<>>
    /\ rf = "idle"
    /\ result = [kind |-> "NoCall"]
    /\ got = <<>>

Init == InitServer /\ InitConnIdle

Next ==
    \/ \E c \in Conns : Accept(c)
    \/ AcceptErr
    \/ \E c \in Conns : Shutdown(c)
    \/ \E c \in Conns : Setup(c)
    \/ \E c \in Conns, f \in InputFrames : ReadFrameSome(c, f)
    \/ \E c \in Conns : ReadFrameNone(c)
    \/ \E c \in Conns : ReadFrameErr(c)
    \/ \E c \in Conns : ApplySet(c)
    \/ \E c \in Conns : ApplyGet(c)
    \/ \E c \in Conns : WriteFrameOk(c)
    \/ \E c \in Conns : WriteFrameErr(c)

Spec == Init /\ [][Next]_vars

\* The peer of a connection closes or resets its end of the stream: no whole
\* frame arrives any more, and read_frame yields None or fails (leftover
\* bytes of a frame, a reset).
PeerClose(c) ==
    /\ pc[c] \in AwaitPoints \cup {"Spawned", "Apply"}
    /\ c \notin closed
    /\ closed' = closed \cup {c}
    /\ UNCHANGED <<db, mainpc, pc, store, cmd, response, inp, out, lastSet, connVars>>

\* The steps handler c takes by itself: everything but a read on an open
\* stream, whose outcome is up to the peer.
HandlerStep(c) ==
    \/ Setup(c)
    \/ c \in closed /\ ReadFrameNone(c)
    \/ c \in closed /\ ReadFrameErr(c)
    \/ ApplySet(c)
    \/ ApplyGet(c)
    \/ WriteFrameOk(c)
    \/ WriteFrameErr(c)

NextLive ==
    \/ Next
    \/ \E c \in Conns : PeerClose(c)

\* The server with peers that may close, under a scheduler that runs every
\* task that can take a step: the while-let of server.rs:43 calls read_frame
\* again by itself, and a read on a closed stream is ready.
SpecLive == Init /\ [][NextLive]_vars /\ \A c \in Conns : WF_vars(HandlerStep(c))

\* -------------------------------------------------------- the wire format
CR == "\r"
LF == "\n"
CRLF == <<CR, LF>>

Digits == <<"0", "1", "2", "3", "4", "5", "6", "7", "8", "9">>

IsDigit(ch) == \E d \in 1..10 : Digits[d] = ch

DigitVal(ch) == (CHOOSE d \in 1..10 : Digits[d] = ch) - 1

\* ASCII decimal of a natural number.
RECURSIVE NatText(_)
NatText(n) ==
    IF n < 10 THEN <<Digits[n + 1]>>
    ELSE NatText(n \div 10) \o <<Digits[(n % 10) + 1]>>

\* ASCII decimal of an integer, signed when negative.
IntText(n) == IF n < 0 THEN <<"-">> \o NatText(-n) ELSE NatText(n)

\* NatValue accumulating the digits from the wrong end.
RECURSIVE NatValueReversed(_)
NatValueReversed(t) ==
    IF Len(t) = 0 THEN 0
    ELSE 10 * NatValueReversed(Tail(t)) + DigitVal(t[1])

\* The number a sequence of digits denotes.
RECURSIVE NatValue(_)
NatValue(t) ==
    IF Len(t) = 0 THEN 0
    ELSE 10 * NatValue(SubSeq(t, 1, Len(t) - 1)) + DigitVal(t[Len(t)])

IsNatText(t) == Len(t) > 0 /\ \A i \in 1..Len(t) : IsDigit(t[i])

IsIntText(t) ==
    \/ IsNatText(t)
    \/ Len(t) > 1 /\ t[1] = "-" /\ IsNatText(Tail(t))

IntValue(t) == IF t[1] = "-" THEN -NatValue(Tail(t)) ELSE NatValue(t)

\* The encoding of a frame: a marker byte, then the variant's payload.
RECURSIVE Encode(_)
RECURSIVE EncodeAll(_)
Encode(f) ==
    CASE f.type = "Simple" -> <<"+">> \o f.val \o CRLF
      [] f.type = "Error" -> <<"-">> \o f.val \o CRLF
      [] f.type = "Integer" -> <<":">> \o IntText(f.int) \o CRLF
      [] f.type = "Bulk" -> <<"$">> \o NatText(Len(f.val)) \o CRLF \o f.val \o CRLF
      [] f.type = "Null" -> <<"$", "-", "1">> \o CRLF
      [] f.type = "Array" -> <<"*">> \o NatText(Len(f.items)) \o CRLF \o EncodeAll(f.items)

EncodeAll(fs) == IF Len(fs) = 0 THEN <<>> ELSE Encode(Head(fs)) \o EncodeAll(Tail(fs))

\* Index of the first terminator at or after `from`, 0 when there is none.
FindCRLF(buf, from) ==
    LET at == {i \in from..(Len(buf) - 1) : buf[i] = CR /\ buf[i + 1] = LF}
    IN  IF at = {} THEN 0 ELSE CHOOSE i \in at : \A j \in at : i <= j

Incomplete == [st |-> "Incomplete"]
Malformed == [st |-> "Malformed"]
Ready(f, next) == [st |-> "Ready", frame |-> f, next |-> next]

\* Decode one frame of buf starting at index pos: Ready with the frame and the
\* index after it, Incomplete when more bytes are needed, Malformed otherwise.
\* (CHOOSE r \in {F(x) : x \in {v}} : TRUE is F(v) with v computed once.)
RECURSIVE DecodeAt(_, _)
RECURSIVE DecodeItems(_, _, _, _)
DecodeAt(buf, pos) ==
    IF pos > Len(buf) THEN Incomplete
    ELSE IF buf[pos] \notin {"+", "-", ":", "$", "*"} THEN Malformed
    ELSE CHOOSE r \in {
         LET line == SubSeq(buf, pos + 1, e - 1)
             m == buf[pos]
         IN  IF e = 0 THEN Incomplete
             ELSE CASE m = "+" -> Ready(Simple(line), e + 2)
                    [] m = "-" -> Ready(ErrorFrame(line), e + 2)
                    [] m = ":" ->
                         IF IsIntText(line) THEN Ready(Integer(IntValue(line)), e + 2)
                         ELSE Malformed
                    [] m = "$" ->
                         IF line = <<"-", "1">> THEN Ready(Null, e + 2)
                         ELSE IF ~IsNatText(line) THEN Malformed
                         ELSE LET n == NatValue(line)
                                  end == e + 2 + n
                              IN  IF Len(buf) < end + 1 THEN Incomplete
                                  ELSE IF <<buf[end], buf[end + 1]>> # CRLF THEN Malformed
                                  ELSE Ready(Bulk(SubSeq(buf, e + 2, end - 1)), end + 2)
                    [] m = "*" ->
                         IF ~IsNatText(line) THEN Malformed
                         ELSE DecodeItems(buf, e + 2, NatValue(line), <<>>) :
                               e \in {FindCRLF(buf, pos + 1)}} : TRUE

DecodeItems(buf, pos, k, acc) ==
    IF k = 0 THEN Ready(Array(acc), pos)
    ELSE CHOOSE r \in {IF d.st # "Ready" THEN d
                        ELSE DecodeItems(buf, d.next, k - 1, Append(acc, d.frame)) :
                            d \in {DecodeAt(buf, pos)}} : TRUE

Decode(buf) == DecodeAt(buf, 1)

\* ------------------------------------------------- connection.rs: Connection
\* Frames a peer sends on one stream, a stream carrying up to MaxFrames of them.
MaxFrames == 2

ConnFrames ==
    {Simple(OK), ErrorFrame(<<"E">>), Integer(12), Bulk(<<"x">>), Bulk(CRLF),
     Null, GetFrame(<<"a">>)}

RECURSIVE FrameSeqs(_)
FrameSeqs(n) ==
    IF n = 0 THEN {<<>>}
    ELSE FrameSeqs(n - 1)
            \cup {Append(fs, f) : fs \in {g \in FrameSeqs(n - 1) : Len(g) = n - 1},
                                  f \in ConnFrames}

Prefixes(b) == {SubSeq(b, 1, n) : n \in 0..Len(b)}

\* Byte streams that are not the prefix of any encoding.
BadStreams ==
    {<<"!", "x">> \o CRLF, <<":", "x">> \o CRLF, <<"$", "1">> \o CRLF \o <<"x", "y", "z">>}

\* What a peer may send before it closes the stream: whole frames, a frame
\* cut short, or bytes that are no frame.
WireInputs ==
    UNION {Prefixes(EncodeAll(fs)) : fs \in FrameSeqs(MaxFrames)}
        \cup UNION {Prefixes(b) : b \in BadStreams}

RfSome(f) == [kind |-> "Some", frame |-> f]
RfNone == [kind |-> "None"]
RfErr(e) == [kind |-> "Err", err |-> e]
\* The end of the body of read_frame is reached with no value produced.
RfNoValue == [kind |-> "NoValue"]
RfPending == [kind |-> "Pending"]
RfNoCall == [kind |-> "NoCall"]

\* ParseFrame emptying the buffer when it takes a frame off it.
ParseFrameClearsBuffer(buf) ==
    LET d == Decode(buf)
    IN  CASE d.st = "Ready" -> [kind |-> "Some", frame |-> d.frame, rest |-> <<>>]
          [] d.st = "Incomplete" -> [kind |-> "None", rest |-> buf]
          [] OTHER -> [kind |-> "Err", rest |-> buf]

\* self.parse_frame(): a complete frame at the head of the buffer is taken
\* off it; an incomplete one leaves the buffer as it is; a malformed one is
\* an error.
ParseFrame(buf) ==
    CHOOSE p \in {CASE d.st = "Ready" ->
                       [kind |-> "Some", frame |-> d.frame,
                        rest |-> SubSeq(buf, d.next, Len(buf))]
                  [] d.st = "Incomplete" -> [kind |-> "None", rest |-> buf]
                  [] OTHER -> [kind |-> "Err", rest |-> buf] : d \in {Decode(buf)}} : TRUE

\* Connection::new: an empty read buffer over the stream.
InitConn ==
    /\ buffer = <<>>
    /\ wire \in WireInputs
    /\ rf = "idle"
    /\ result = RfNoCall
    /\ got = <<>>

\* ReadFrameCall going to the stream read without looking at the buffer.
ReadFrameCallReadsFirst ==
    /\ rf = "idle"
    /\ result' = RfPending
    /\ rf' = "reading"
    /\ UNCHANGED <<buffer, got, wire, srvVars>>

\* read_frame is entered and parse_frame runs on the buffered data: a frame
\* is returned, a malformed frame is an error, and otherwise the call goes on
\* to the stream read and suspends there.  The method can be called again
\* whatever the call before returned, None and errors included.
ReadFrameCall ==
    /\ rf = "idle"
    /\ \E p \in {ParseFrame(buffer)} :
           CASE p.kind = "Some" ->
                  /\ buffer' = p.rest
                  /\ result' = RfSome(p.frame)
                  /\ got' = Append(got, p.frame)
                  /\ rf' = "idle"
             [] p.kind = "Err" ->
                  /\ result' = RfErr("protocol")
                  /\ rf' = "idle"
                  /\ UNCHANGED <<buffer, got>>
             [] OTHER ->
                  /\ result' = RfPending
                  /\ rf' = "reading"
                  /\ UNCHANGED <<buffer, got>>
    /\ UNCHANGED <<wire, srvVars>>

\* AfterRead with the clean-shutdown test left out: any end of stream is
\* reported as None.
AfterReadAlwaysClean(n, buf) == IF n = 0 THEN RfNone ELSE RfNoValue

\* What read_frame does once read_buf has returned n bytes, the buffer being
\* buf after the read: on 0 the clean-shutdown test, otherwise the end of the
\* body.
AfterRead(n, buf) ==
    IF n = 0
    THEN IF buf = <<>> THEN RfNone ELSE RfErr("connection reset by peer")
    ELSE RfNoValue

\* ReadBytes storing the bytes read over the buffered ones.
ReadBytesOverwrites(n) ==
    /\ rf = "reading"
    /\ n \in 1..Len(wire)
    /\ buffer' = SubSeq(wire, 1, n)
    /\ wire' = SubSeq(wire, n + 1, Len(wire))
    /\ result' = AfterRead(n, buffer')
    /\ rf' = "idle"
    /\ UNCHANGED <<got, srvVars>>

\* read_buf returns n > 0 bytes, appended to the buffer.
ReadBytes(n) ==
    /\ rf = "reading"
    /\ n \in 1..Len(wire)
    /\ buffer' = buffer \o SubSeq(wire, 1, n)
    /\ wire' = SubSeq(wire, n + 1, Len(wire))
    /\ result' = AfterRead(n, buffer')
    /\ rf' = "idle"
    /\ UNCHANGED <<got, srvVars>>

\* The peer has closed the stream: read_buf returns 0.
ReadEof ==
    /\ rf = "reading"
    /\ wire = <<>>
    /\ result' = AfterRead(0, buffer)
    /\ rf' = "idle"
    /\ UNCHANGED <<buffer, wire, got, srvVars>>

\* read_buf fails: the error is returned by `?`.
ReadIoErr ==
    /\ rf = "reading"
    /\ result' = RfErr("io")
    /\ rf' = "idle"
    /\ UNCHANGED <<buffer, wire, got, srvVars>>

InitC == InitServer /\ InitConn

NextConn ==
    \/ ReadFrameCall
    \/ \E n \in 1..Len(wire) : ReadBytes(n)
    \/ ReadEof
    \/ ReadIoErr

SpecConn == InitC /\ [][NextConn]_vars

\* ------------------------------------------------- claims about the server
\* What one Store shared by every handler would answer to Get(k): the value of
\* the most recently applied Set(k, _), whichever connection applied it.
SharedLookup(k) == IF k \in DOMAIN lastSet THEN Bulk(lastSet[k].val) ELSE Null

\* The handlers positioned at their Store operation (the insert or get of
\* their arm); process acquires no guard to get there.
InStore == {c \in Conns : pc[c] = "Apply"}

\* C1: a write made on one connection is visible on every other connection:
\* a Get(k) processed on connection B after connection A's Set(k, v), with no
\* Set(k, _) applied in between, responds Bulk(v).
C1_WriteVisibleOnOtherConnection ==
    [][\A c \in Conns :
          (/\ ApplyGet(c)
           /\ cmd[c].key \in DOMAIN lastSet
           /\ lastSet[cmd[c].key].by # c)
              => response'[c] = Bulk(lastSet[cmd[c].key].val)]_vars

\* C2: a Get(k) processed after Set(k, v) with no intervening Set on k
\* responds Bulk(v), a Get(k) on a key never set responds Null, and a Set
\* always responds Simple("OK").
C2_GetAfterSet ==
    [][\A c \in Conns :
          /\ ApplyGet(c) => response'[c] = SharedLookup(cmd[c].key)
          /\ ApplySet(c) => response'[c] = Simple(OK)]_vars

\* C3: after two or more Set operations on key k, Get(k) responds Bulk of the
\* value of the most recently applied one (last write wins).
C3_LastWriteWins ==
    [][\A c \in Conns :
          (/\ ApplyGet(c)
           /\ cmd[c].key \in DOMAIN lastSet
           /\ lastSet[cmd[c].key].n >= 2)
              => response'[c] = Bulk(lastSet[cmd[c].key].val)]_vars

\* C4: a well-formed command naming an operation other than Get or Set is
\* answered with an Error frame: the handler goes on to write that response
\* and does not terminate.
C4_UnknownCommandAnswered ==
    [][\A c \in Conns, f \in InputFrames :
          (ReadFrameSome(c, f) /\ FromFrame(f).kind = "Unknown")
              => (pc'[c] = "RespondAndLoop" /\ response'[c].type = "Error")]_vars

\* C5: a frame Command::from_frame rejects with a CommandError (not an Array,
\* or an arity mismatch) is answered with an Error frame and the connection
\* remains open.
C5_CommandErrorAnswered ==
    [][\A c \in Conns, f \in InputFrames :
          (ReadFrameSome(c, f) /\ FromFrame(f).kind = "Err")
              => (pc'[c] = "RespondAndLoop" /\ response'[c].type = "Error")]_vars

\* The response r answers the request frame f.
Answers(f, r) ==
    LET k == FromFrame(f).kind
    IN  CASE k = "Set" -> r = Simple(OK)
          [] k = "Get" -> r.type \in {"Bulk", "Null"}
          [] OTHER -> r.type = "Error"

AllAnswered(reqs, resps) ==
    /\ Len(resps) = Len(reqs)
    /\ \A i \in 1..Len(reqs) : Answers(reqs[i], resps[i])

\* C6: on each connection every frame read gets exactly one response, the
\* i-th response answers the i-th request, and the response to request i is
\* written before request i+1 is read: whenever a handler comes to rest
\* (awaiting the next frame, or ended) other than by a failed write, every
\* frame it has read has its response.
C6_OneResponsePerRequestInOrder ==
    [][\A c \in Conns :
          /\ Len(inp'[c]) <= Len(out'[c]) + 1
          /\ (/\ pc'[c] # pc[c]
              /\ pc'[c] \in {"AwaitFrame", "Closed", "Panicked"}
              /\ ~WriteFrameErr(c))
                 => AllAnswered(inp'[c], out'[c])]_vars

\* Every map of the program: main's Db and the handlers' maps.
AllMaps == {db} \cup {store[c] : c \in Conns}

\* Every key that was set holds, in m, the value of its Set.
HoldsAllSets(m) ==
    \A k \in DOMAIN lastSet : k \in DOMAIN m /\ m[k] = lastSet[k].val

\* Distinct keys were each set once, from separate connections, and every
\* one of these Sets has completed.
DistinctKeySetsDone ==
    /\ Cardinality(DOMAIN lastSet) >= 2
    /\ \A k \in DOMAIN lastSet : lastSet[k].n = 1
    /\ \A j, k \in DOMAIN lastSet : j # k => lastSet[j].by # lastSet[k].by
    /\ \A c \in Conns : pc[c] # "Apply"

\* C9: no lost updates across independent keys: once N Sets on N distinct
\* keys from N connections have completed, the Store holds all N keys with
\* their values.
C9_NoLostUpdates == DistinctKeySetsDone => \E m \in AllMaps : HoldsAllSets(m)

\* The answers a Get(k) by handler c may give when Store operations are
\* atomic: the Store's answer before a concurrent Set, or that Set's value.
PreOrPost(c) ==
    {SharedLookup(cmd[c].key)}
        \cup {Bulk(cmd[d].value) :
                d \in {e \in InStore \ {c} :
                         cmd[e].kind = "Set" /\ cmd[e].key = cmd[c].key}}

\* C10: at most one handler is inside a Store get/set at any time, and a
\* Get(k) concurrent with a Set(k, new) responds the pre-update result or
\* Bulk(new), never another value.
C10_StoreMutualExclusion ==
    [][/\ Cardinality({c \in Conns : pc'[c] = "Apply"}) <= 1
       /\ \A c \in Conns : ApplyGet(c) => response'[c] \in PreOrPost(c)]_vars

\* --------------------------------------------- claims about the Connection
\* C7: when the stream read inside read_frame returns zero bytes, read_frame
\* yields None if the read buffer is empty, and fails with "connection reset
\* by peer" if the buffer holds the leftover bytes of an incomplete frame.
C7_EofCleanOrReset ==
    [][ReadEof =>
          IF buffer = <<>>
          THEN result' = RfNone
          ELSE /\ result' = RfErr("connection reset by peer")
               /\ Decode(buffer).st = "Incomplete"]_vars

\* The peer closed the stream in the middle of a frame and read_frame failed.
C7_Witness ==
    /\ result = RfErr("connection reset by peer")
    /\ wire = <<>>
    /\ buffer # <<>>

\* C8: every return of read_frame is Some(frame), None or an error; a stream
\* read of a non-zero number of bytes never makes it return with nothing.
C8_NeverSurfacesIncomplete ==
    (rf = "idle" /\ result # RfNoCall) => result.kind \in {"Some", "None", "Err"}

\* ------------------------------------------ claims about the server, cont.
\* Nothing of handler d changes.
Untouched(d) ==
    /\ pc'[d] = pc[d]
    /\ cmd'[d] = cmd[d]
    /\ response'[d] = response[d]
    /\ inp'[d] = inp[d]
    /\ out'[d] = out[d]
    /\ store'[d] = store[d]

\* Handler c ends on a failure: a frame that is no command it serves, or an
\* error of its connection (the unwraps of server.rs:43, :44, :62 and the
\* catch-all arm of :59).
HandlerFails(c) == pc[c] \in AwaitPoints /\ pc'[c] = "Panicked"

\* C11: a malformed frame or a connection error ends only the handler of its
\* own connection: the contents of the Store are unchanged by the failure,
\* every other handler is where it was, and main is still where it was in
\* its accept loop.
C11_FailureIsLocal ==
    [][\A c \in Conns :
          HandlerFails(c)
              => /\ db' = db
                 /\ store' = store
                 /\ \A d \in Conns \ {c} : Untouched(d)
                 /\ mainpc' = mainpc]_vars

\* C16: when read_frame returns None or fails the handler goes from
\* AwaitFrame to Closed without writing a response and without touching the
\* Store; once Closed, it reads, writes and changes nothing any more.
C16_ReadEndIsClosed ==
    [][\A c \in Conns :
          /\ (ReadFrameNone(c) \/ ReadFrameErr(c))
                => /\ pc'[c] = "Closed"
                   /\ out' = out
                   /\ store' = store
                   /\ db' = db
          /\ pc[c] = "Closed" => Untouched(c)]_vars

\* Handler c holds the guard of the Store's mutex.  process never calls
\* lock(): the Arc<Mutex<..>> of main is not among its parameters
\* (server.rs:30) and its map is a plain local (server.rs:36).
Holding(c) == FALSE

\* C17: the guard of the Store is acquired and released within the
\* synchronous Apply step: a handler at its Store operation holds it, and no
\* handler holds it while suspended at a stream read or write.
C17_GuardWithinApply ==
    \A c \in Conns :
        /\ pc[c] = "Apply" => Holding(c)
        /\ pc[c] \in AwaitPoints => ~Holding(c)

\* C18: once the peer has closed a connection's stream, its handler, fairly
\* scheduled, eventually reaches Closed (as long as the process itself is
\* up); no handler stays in AwaitFrame for ever on a closed stream.
C18_ClosedStreamClosesHandler ==
    \A c \in Conns :
        (c \in closed /\ pc[c] \in AwaitPoints \cup {"Apply"})
            ~> (pc[c] = "Closed" \/ mainpc = "Panicked")

\* C19: processing Get(k), k present or absent, leaves every map as it was.
C19_GetHasNoSideEffect ==
    [][\A c \in Conns :
          (pc[c] = "Apply" /\ cmd[c].kind = "Get" /\ pc'[c] # pc[c])
              => (store' = store /\ db' = db)]_vars

\* A Get of an absent key has been answered Null by a handler whose map
\* holds another key.
C19_Witness ==
    \E c \in Conns :
        /\ pc[c] = "RespondAndLoop"
        /\ cmd[c].kind = "Get"
        /\ response[c] = Null
        /\ store[c] # EmptyMap

\* Map m2 is m1 with at most the entry for k changed, to v.
OnlyEntrySet(m1, m2, k, v) ==
    /\ DOMAIN m2 = DOMAIN m1 \cup {k}
    /\ m2[k] = v
    /\ \A j \in DOMAIN m1 \ {k} : m2[j] = m1[j]

\* C20: a map changes only in the step that applies a decoded Set(k, v), and
\* then only in its entry for k; an Unknown command, a CommandError and a
\* failed read change no map; a key once set is never absent afterwards,
\* from the map of a handler that is serving.
C20_OnlySetChangesStore ==
    [][/\ db' = db
       /\ \A k \in DOMAIN lastSet, c \in Conns :
             pc[c] \in AwaitPoints \cup {"Apply"} => k \in DOMAIN store[c]
       /\ \A c \in Conns :
             /\ store'[c] # store[c]
                   => /\ pc[c] = "Apply"
                      /\ cmd[c].kind = "Set"
                      /\ OnlyEntrySet(store[c], store'[c], cmd[c].key, cmd[c].value)
             /\ DOMAIN store[c] \subseteq DOMAIN store'[c]]_vars

\* ------------------------------------- claims about the connection, cont.
\* b begins with p.
StartsWith(b, p) == Len(b) >= Len(p) /\ SubSeq(b, 1, Len(p)) = p

\* Buffer b holds the first bytes of the encoding of f, and decoding it
\* says Incomplete until all of them are there and then yields f with
\* exactly the encoding consumed.
Reassembles(b, f) ==
    LET e == Encode(f)
    IN  IF Len(b) < Len(e)
        THEN StartsWith(e, b) /\ Decode(b) = Incomplete
        ELSE StartsWith(b, e) /\ Decode(b) = Ready(f, Len(e) + 1)

\* C12: whatever the reads a frame's encoding is split across, the buffer
\* holds the bytes received so far in order, decoding says Incomplete on every
\* proper prefix and yields exactly the frame, all its bytes consumed, once
\* they are all buffered.
C12_BufferReassembly ==
    [][\A f \in ConnFrames :
          (got = <<>> /\ StartsWith(buffer \o wire, Encode(f)))
              => /\ Reassembles(buffer, f)
                 /\ IF got' = <<>>
                    THEN Reassembles(buffer', f)
                    ELSE got' = <<f>> /\ buffer = Encode(f) \o buffer']_vars

\* An array frame has arrived in part, a second call found it incomplete
\* and is suspended at the read for the rest.
C12_Witness ==
    /\ got = <<>>
    /\ buffer \o wire = Encode(GetFrame(<<"a">>))
    /\ Len(buffer) > 4
    /\ wire # <<>>
    /\ rf = "reading"

\* C13: decoding the encoding of a frame yields Ready with that frame and
\* consumes exactly the length of the encoding, for every variant.
C13_RoundTrip ==
    \A f \in ConnFrames :
        StartsWith(buffer, Encode(f)) => Decode(buffer) = Ready(f, Len(Encode(f)) + 1)

\* The whole encoding of an integer frame is buffered, nothing else.
C13_Witness ==
    /\ buffer = Encode(Integer(12))
    /\ wire = <<>>
    /\ result = RfNoValue

\* C14: a decode attempt that ends Incomplete leaves the buffer as it was;
\* bytes leave the buffer only in a step that returns a frame, and they are
\* exactly the bytes of that frame.
C14_BufferConsumedOnlyByFrame ==
    [][/\ (rf = "idle" /\ rf' = "reading")
             => (Decode(buffer) = Incomplete /\ buffer' = buffer)
       /\ ~StartsWith(buffer', buffer)
             => /\ result'.kind = "Some"
                /\ \E k \in 1..Len(buffer) :
                      /\ buffer' = SubSeq(buffer, k + 1, Len(buffer))
                      /\ Decode(SubSeq(buffer, 1, k)) = Ready(result'.frame, k + 1)]_vars

\* A frame has been taken off a buffer that keeps the first bytes of the
\* next one, and the call after it found those incomplete.
C14_Witness ==
    /\ Len(got) = 1
    /\ buffer # <<>>
    /\ Decode(buffer) = Incomplete
    /\ rf = "reading"

\* Everything the peer sends: the frames returned, the bytes buffered and
\* the bytes still on the stream.
Stream == EncodeAll(got) \o buffer \o wire

\* C15: a call made while the buffer holds a complete frame returns the
\* first buffered frame without reading the stream and keeps the bytes after
\* it; the frames returned, in order, followed by what is left are always the
\* stream sent, so no frame is lost, duplicated or reordered.
C15_PipelinedFramesInOrder ==
    [][/\ (rf = "idle" /\ Decode(buffer).st = "Ready"
              /\ <<rf, result, buffer, got, wire>>' # <<rf, result, buffer, got, wire>>)
             => /\ result' = RfSome(Decode(buffer).frame)
                /\ rf' = "idle"
                /\ wire' = wire
                /\ got' = Append(got, Decode(buffer).frame)
                /\ buffer' = SubSeq(buffer, Decode(buffer).next, Len(buffer))
       /\ Stream' = Stream]_vars

\* Two frames arrived in one read; the first has been returned and the
\* second is still buffered, complete.
C15_Witness ==
    /\ got = <<Bulk(CRLF)>>
    /\ result = RfSome(Bulk(CRLF))
    /\ Decode(buffer) = Ready(Null, 6)
    /\ wire = <<>>
====
